---- MODULE Spec2Model ----
(***************************************************************************)
(* md2pdf-reporter (src/reporter.py): a command-line wrapper with two      *)
(* commands.  `init` copies a Markdown template into an output directory   *)
(* and stamps title/author/date; `generate` runs pandoc, and optionally 7z *)
(* and an MD5 digest.                                                      *)
(*                                                                         *)
(* Representation.  A Python str is a sequence of tokens (strings); a file *)
(* content is the str of its characters (the templates are ASCII, so bytes *)
(* and characters coincide).  A Path is a sequence of names, a name being  *)
(* a str.  A dict is a function whose DOMAIN is the set of keys present.   *)
(* The platform is POSIX: os.linesep is "\n".                              *)
(***************************************************************************)
EXTENDS Integers, Sequences, FiniteSets, TLC

VARIABLES
    pc,        \* position of the current invocation in main and its handler
    args,      \* argparse namespace of the current invocation
    cfg,       \* value returned by load_config
    cmd,       \* generate_cmd's local cmd list
    log,       \* what the invocation has printed, run and raised, in order
    exit,      \* exit status of the invocation, -1 while it runs
    dirs,      \* file system: directories that exist
    files,     \* file system: path -> content of the files that exist
    fs0,       \* the file system as it was when the invocation started
    configFile,\* the mapping the YAML file at ConfigPath holds
    initResult \* args of each init that succeeded -> the file its first success left

vars == <<pc, args, cfg, cmd, log, exit, dirs, files, fs0, configFile, initResult>>

\* ------------------------------------------------------------------ bounds
MaxExtraLines == 1

\* ------------------------------------------------------------- strings
Q == "\""
CR == "\r"
LF == "\n"

Range(s) == {s[i] : i \in 1..Len(s)}

IsPrefixAt(text, old, i) ==
    /\ i + Len(old) - 1 <= Len(text)
    /\ \A j \in 1..Len(old) : text[i + j - 1] = old[j]

Contains(text, old) == \E i \in 1..Len(text) : IsPrefixAt(text, old, i)

\* str.replace(old, new): every non-overlapping occurrence, leftmost first
RECURSIVE ReplaceFrom(_, _, _, _)
ReplaceFrom(text, old, new, i) ==
    IF i > Len(text) THEN <<>>
    ELSE IF IsPrefixAt(text, old, i)
         THEN new \o ReplaceFrom(text, old, new, i + Len(old))
         ELSE <<text[i]>> \o ReplaceFrom(text, old, new, i + 1)

StrReplace(text, old, new) == ReplaceFrom(text, old, new, 1)

\* text-mode read (newline=None): "\r\n" and a lone "\r" both arrive as "\n"
RECURSIVE UniversalNewlines(_, _)
UniversalNewlines(bytes, i) ==
    IF i > Len(bytes) THEN <<>>
    ELSE IF bytes[i] = CR
         THEN <<LF>> \o UniversalNewlines(bytes,
                  IF i < Len(bytes) /\ bytes[i + 1] = LF THEN i + 2 ELSE i + 1)
         ELSE <<bytes[i]>> \o UniversalNewlines(bytes, i + 1)

ReadText(bytes) == UniversalNewlines(bytes, 1)

\* os.linesep of the platform
LineSep == <<LF>>

\* text-mode write (newline=None): each "\n" leaves as os.linesep
WriteText(text) == StrReplace(text, <<LF>>, LineSep)

\* hashlib.md5(bytes).hexdigest(): a digest that determines the bytes
MD5(bytes) == <<"md5(">> \o bytes \o <<")">>

\* str(date.today())
Today == <<"2026-11-02">>

\* ---------------------------------------------------------------- dicts
EmptyDict == [k \in {} |-> k]
Field(k, S) == {[j \in {k} |-> v] : v \in S}
OptField(k, S) == Field(k, S) \cup {EmptyDict}
Has(d, k) == k \in DOMAIN d
\* dict.get(k, default)
Get(d, k, default) == IF Has(d, k) THEN d[k] ELSE default

\* bool(v) of a YAML scalar, written as Python prints it
Falsy == {"False", "0", "''", "None"}
Truthy(v) == v \notin Falsy

\* ---------------------------------------------------------------- paths
Suffixes == {".md", ".pdf", ".7z", ".yml"}
\* Path(s) of a relative s: its names, split at "/"
RECURSIVE SplitFrom(_, _, _)
SplitFrom(s, i, cur) ==
    LET done == IF cur = <<>> THEN <<>> ELSE <<cur>>
    IN  IF i > Len(s) THEN done
        ELSE IF s[i] = "/" THEN done \o SplitFrom(s, i + 1, <<>>)
        ELSE SplitFrom(s, i + 1, Append(cur, s[i]))

PathOf(s) == SplitFrom(s, 1, <<>>)
\* path / s, for a relative s
Join(path, s) == path \o PathOf(s)
PathName(path) == path[Len(path)]
\* PurePath.stem: the name without its last suffix
Stem(path) ==
    LET name == PathName(path)
    IN  IF Len(name) > 1 /\ name[Len(name)] \in Suffixes
        THEN SubSeq(name, 1, Len(name) - 1) ELSE name
\* str(path)
RECURSIVE PathStr(_)
PathStr(path) ==
    IF Len(path) = 0 THEN <<".">>
    ELSE IF Len(path) = 1 THEN path[1]
    ELSE PathStr(SubSeq(path, 1, Len(path) - 1)) \o <<"/">> \o path[Len(path)]
\* the path and its parents, as mkdir(parents=True) creates them
Ancestors(path) == {SubSeq(path, 1, n) : n \in 1..Len(path)}

\* --------------------------------------------------------------- inputs
Keys == <<"title", "author", "date">>
\* f'{key}: ""'
Placeholder(key) == <<key, ": ", Q, Q>>
\* f'{key}: "{value}"'
Filled(key, value) == <<key, ": ", Q>> \o value \o <<Q>>

RECURSIVE Flatten(_)
Flatten(ss) == IF ss = <<>> THEN <<>> ELSE Head(ss) \o Flatten(Tail(ss))

\* the placeholder lines of the keys in S, in the order of Keys
FrontMatter(S) ==
    Flatten([i \in 1..Len(Keys) |->
                IF Keys[i] \in S THEN Placeholder(Keys[i]) \o <<LF>> ELSE <<>>])

\* other lines: plain, ending in CR LF, and a key that ends in "title"
ExtraLines == { <<"x", LF>>, <<"x", CR, LF>>,
                <<"sub">> \o Placeholder("title") \o <<LF>> }

Templates ==
    {FrontMatter(S) \o Flatten(b) :
        S \in SUBSET Range(Keys),
        b \in UNION {[1..n -> ExtraLines] : n \in 0..MaxExtraLines}}

DefaultTemplate == FrontMatter(Range(Keys))

Merge(A, B) == {a @@ b : a \in A, b \in B}

Metadatas ==
    Merge(OptField("title", {<<"T">>, Placeholder("author")}),
          OptField("author", {<<"A">>, Placeholder("date")}))
FullMetadata == [title |-> <<"T">>, author |-> <<"A">>]

Outputs ==
    Merge(OptField("pdf_name", {<<"report", ".pdf">>, <<"draft">>}),
          OptField("archive", {"True", "False", "'no'"}))
FullOutput == [pdf_name |-> <<"report", ".pdf">>, archive |-> "True"]

PandocRequired ==
    Merge(OptField("template", {<<"eisvogel">>}),
          Merge(OptField("highlight_style", {<<"tango">>}),
                OptField("top_level_division", {<<"chapter">>})))
FullPandocRequired ==
    [template |-> <<"eisvogel">>, highlight_style |-> <<"tango">>,
     top_level_division |-> <<"chapter">>]
PandocFlags ==
    Merge(OptField("toc", {"True", "False"}),
          Merge(OptField("toc_depth", {2}),
                OptField("number_sections", {"True", "False"})))
Pandocs == PandocRequired \cup Merge({FullPandocRequired}, PandocFlags)
FullPandoc == FullPandocRequired @@ [toc |-> "True", number_sections |-> "True"]

Pathss == OptField("resource_path", {<<".">>})
FullPaths == [resource_path |-> <<".">>]

Config(m, o, p, r) == [metadata |-> m, output |-> o, pandoc |-> p, paths |-> r]
FullConfig == Config(FullMetadata, FullOutput, FullPandoc, FullPaths)
Without(d, k) == [j \in DOMAIN d \ {k} |-> d[j]]

\* configs that vary what init reads
InitConfigs ==
    {Config(m, FullOutput, FullPandoc, FullPaths) : m \in Metadatas}
    \cup {Without(FullConfig, "metadata")}
\* configs that vary what generate reads, one section at a time
GenerateConfigs ==
    {Config(FullMetadata, o, FullPandoc, FullPaths) : o \in Outputs}
    \cup {Config(FullMetadata, FullOutput, p, FullPaths) : p \in Pandocs}
    \cup {Config(FullMetadata, FullOutput, FullPandoc, r) : r \in Pathss}
    \cup {Without(FullConfig, k) : k \in {"output", "pandoc", "paths"}}

ConfigPath == <<"config", ".yml">>
TemplatePath == <<"templates", "/", "template", ".md">>
ConfigArgs == {ConfigPath, <<"missing", ".yml">>}
TemplateArgs == {TemplatePath, <<"templates", "/", "nope", ".md">>}
OutputArgs == {<<"out", "/", "reports">>}
InputArgs == {<<"report", ".md">>}

ArgsSet ==
    {[command |-> "init", config |-> c, template |-> t, output |-> o, input |-> <<>>] :
        c \in ConfigArgs, t \in TemplateArgs, o \in OutputArgs}
    \cup
    {[command |-> "generate", config |-> c, template |-> <<>>, output |-> o, input |-> i] :
        c \in ConfigArgs, o \in OutputArgs, i \in InputArgs}

NoArgs == [command |-> "", config |-> <<>>, template |-> <<>>, output |-> <<>>, input |-> <<>>]

\* a user's edit of a copied file between two invocations
EditText == <<"edited", LF>> \o Placeholder("title") \o <<LF>>

\* ------------------------------------------------------------------ log
Printed(msg, arg) == [kind |-> "print", msg |-> msg, arg |-> arg, cmd |-> <<>>]
Raised(what, arg) == [kind |-> "raise", msg |-> what, arg |-> arg, cmd |-> <<>>]
Ran(c, result) == [kind |-> "run", msg |-> result, arg |-> <<>>, cmd |-> c]

FS == [dirs |-> dirs, files |-> files]
Write(path, content) == [p \in DOMAIN files \cup {path} |->
                            IF p = path THEN content ELSE files[p]]

Init ==
    /\ pc = "idle"
    /\ args = NoArgs
    /\ cfg = EmptyDict
    /\ cmd = <<>>
    /\ log = <<>>
    /\ exit = -1
    /\ dirs = {<<<<"templates">>>>}
    /\ \/ \E t \in Templates, c \in InitConfigs :
            /\ files = [p \in {PathOf(TemplatePath)} |-> t]
            /\ configFile = c
       \/ \E c \in GenerateConfigs :
            /\ files = [p \in {PathOf(TemplatePath)} |-> DefaultTemplate]
            /\ configFile = c
    /\ fs0 = [dirs |-> dirs, files |-> files]
    /\ initResult = EmptyDict

\* --------------------------------------------------------------- main
\* parse_args, between two invocations (lines 140)
Start ==
    /\ pc \in {"idle", "done", "exited"}
    /\ \E a \in ArgsSet : args' = a
    /\ pc' = "load_config"
    /\ cfg' = EmptyDict
    /\ cmd' = <<>>
    /\ log' = <<>>
    /\ exit' = -1
    /\ fs0' = FS
    /\ UNCHANGED <<dirs, files, configFile, initResult>>

Die(event) ==
    /\ log' = Append(log, event)
    /\ exit' = 1
    /\ pc' = "exited"

\* load_config whose except clause prints and falls through
LoadConfigNoExit ==
    /\ pc = "load_config"
    /\ cfg' = IF args.config = ConfigPath THEN configFile ELSE EmptyDict
    /\ log' = IF args.config = ConfigPath THEN log
              ELSE Append(log, Printed("[!] Config file not found:", args.config))
    /\ pc' = IF args.command = "init" THEN "init_mkdir" ELSE "generate_mkdir"
    /\ UNCHANGED <<exit, args, cmd, dirs, files, fs0, configFile, initResult>>

\* load_config, then main's dispatch
LoadConfig ==
    /\ pc = "load_config"
    /\ IF args.config = ConfigPath
       THEN /\ cfg' = configFile
            /\ pc' = IF args.command = "init" THEN "init_mkdir" ELSE "generate_mkdir"
            /\ UNCHANGED <<log, exit>>
       ELSE /\ Die(Printed("[!] Config file not found:", args.config))
            /\ UNCHANGED cfg
    /\ UNCHANGED <<args, cmd, dirs, files, fs0, configFile, initResult>>

\* ----------------------------------------------------------- init_cmd
InitTarget == Join(PathOf(args.output), PathName(PathOf(args.template)))

\* output.mkdir(parents=True, exist_ok=True)
InitMkdir ==
    /\ pc = "init_mkdir"
    /\ dirs' = dirs \cup Ancestors(PathOf(args.output))
    /\ pc' = "init_check"
    /\ UNCHANGED <<args, cfg, cmd, log, exit, files, fs0, configFile, initResult>>

\* the template check that prints and returns instead of exiting
InitCheckTemplateReturns ==
    /\ pc = "init_check"
    /\ IF PathOf(args.template) \in DOMAIN files
       THEN pc' = "init_copy" /\ UNCHANGED <<log, exit>>
       ELSE /\ log' = Append(log, Printed("[!] Template not found:",
                                          PathStr(PathOf(args.template))))
            /\ exit' = 0
            /\ pc' = "done"
    /\ UNCHANGED <<args, cfg, cmd, dirs, files, fs0, configFile, initResult>>

\* if not template_path.exists(): print, sys.exit(1)
InitCheckTemplate ==
    /\ pc = "init_check"
    /\ IF PathOf(args.template) \in DOMAIN files
       THEN pc' = "init_copy" /\ UNCHANGED <<log, exit>>
       ELSE Die(Printed("[!] Template not found:", PathStr(PathOf(args.template))))
    /\ UNCHANGED <<args, cfg, cmd, dirs, files, fs0, configFile, initResult>>

\* a copy that leaves an existing target alone
InitCopyKeepsExisting ==
    /\ pc = "init_copy"
    /\ files' = IF InitTarget \in DOMAIN files THEN files
                ELSE Write(InitTarget, files[PathOf(args.template)])
    /\ pc' = "init_replace"
    /\ UNCHANGED <<args, cfg, cmd, log, exit, dirs, fs0, configFile, initResult>>

\* shutil.copy(template_path, target)
InitCopy ==
    /\ pc = "init_copy"
    /\ files' = Write(InitTarget, files[PathOf(args.template)])
    /\ pc' = "init_replace"
    /\ UNCHANGED <<args, cfg, cmd, log, exit, dirs, fs0, configFile, initResult>>

\* the replacements dict of replace_metadata; c holds "metadata"
Replacements(c) ==
    [title |-> Get(c["metadata"], "title", <<>>),
     author |-> Get(c["metadata"], "author", <<>>),
     date |-> Today]

\* the for loop of replace_metadata over the first n items of the dict
RECURSIVE ReplaceAll(_, _, _)
ReplaceAll(text, repl, n) ==
    IF n = 0 THEN text
    ELSE StrReplace(ReplaceAll(text, repl, n - 1),
                    Placeholder(Keys[n]), Filled(Keys[n], repl[Keys[n]]))

\* replace_metadata reading cfg.get("metadata", {})
ReplaceMetadataLenient ==
    /\ pc = "init_replace"
    /\ files' = Write(InitTarget,
                   WriteText(ReplaceAll(ReadText(files[InitTarget]),
                       Replacements([metadata |-> Get(cfg, "metadata", EmptyDict)]),
                       Len(Keys))))
    /\ pc' = "init_print"
    /\ UNCHANGED <<log, exit, args, cfg, cmd, dirs, fs0, configFile, initResult>>

\* replace_metadata(target, cfg)
ReplaceMetadata ==
    /\ pc = "init_replace"
    /\ IF Has(cfg, "metadata")
       THEN /\ files' = Write(InitTarget,
                          WriteText(ReplaceAll(ReadText(files[InitTarget]),
                                               Replacements(cfg), Len(Keys))))
            /\ pc' = "init_print"
            /\ UNCHANGED <<log, exit>>
       ELSE /\ Die(Raised("KeyError", <<"metadata">>))
            /\ UNCHANGED files
    /\ UNCHANGED <<args, cfg, cmd, dirs, fs0, configFile, initResult>>

\* the two prints that end init_cmd, and main's return
InitDone ==
    /\ pc = "init_print"
    /\ log' = log \o <<Printed("[+] Template copied to", PathStr(InitTarget)),
                       Printed("[+] Edit the Markdown file, then run generate", <<>>)>>
    /\ exit' = 0
    /\ pc' = "done"
    /\ initResult' = IF args \in DOMAIN initResult THEN initResult
                     ELSE initResult @@ [a \in {args} |-> files[InitTarget]]
    /\ UNCHANGED <<args, cfg, cmd, dirs, files, fs0, configFile>>

\* with no invocation running, the user edits a copied file
UserEdit ==
    /\ pc \in {"idle", "done", "exited"}
    /\ \E o \in OutputArgs :
          LET target == Join(PathOf(o), PathName(PathOf(TemplatePath)))
          IN  /\ target \in DOMAIN files
              /\ files[target] # EditText
              /\ files' = Write(target, EditText)
    /\ pc' = "idle"
    /\ args' = NoArgs
    /\ cfg' = EmptyDict
    /\ cmd' = <<>>
    /\ log' = <<>>
    /\ exit' = -1
    /\ fs0' = [dirs |-> dirs, files |-> files']
    /\ UNCHANGED <<dirs, configFile, initResult>>

\* ------------------------------------------------------- generate_cmd
\* output.mkdir(parents=True, exist_ok=True)
GenerateMkdir ==
    /\ pc = "generate_mkdir"
    /\ dirs' = dirs \cup Ancestors(PathOf(args.output))
    /\ pc' = "generate_build"
    /\ UNCHANGED <<args, cfg, cmd, log, exit, files, fs0, configFile, initResult>>

\* the subscripts of lines 67-79, in the order they are evaluated
RequiredLookups ==
    << <<"output">>, <<"output", "pdf_name">>, <<"pandoc">>,
       <<"pandoc", "template">>, <<"pandoc", "highlight_style">>,
       <<"paths">>, <<"paths", "resource_path">>,
       <<"pandoc", "top_level_division">> >>

Resolves(c, lookup) ==
    /\ Has(c, lookup[1])
    /\ Len(lookup) = 2 => Has(c[lookup[1]], lookup[2])

\* the first subscript that raises KeyError, 0 when none does
FirstMissing(c) ==
    IF \A i \in 1..Len(RequiredLookups) : Resolves(c, RequiredLookups[i]) THEN 0
    ELSE CHOOSE i \in 1..Len(RequiredLookups) :
            /\ ~Resolves(c, RequiredLookups[i])
            /\ \A j \in 1..(i - 1) : Resolves(c, RequiredLookups[j])

\* pdf = output / cfg["output"]["pdf_name"]
Pdf == Join(PathOf(args.output), cfg["output"]["pdf_name"])
\* archive = output / f"{pdf.stem}.7z"
Archive == Join(PathOf(args.output), Stem(Pdf) \o <<".7z">>)

DefaultTocDepth == 6
\* str(n) of a small int
Str(n) == << <<"0">>, <<"1">>, <<"2">>, <<"3">>, <<"4">>, <<"5">>, <<"6">>,
             <<"7">>, <<"8">>, <<"9">> >>[n + 1]

\* the list with --number-sections under the toc test
PandocCmdNumberUnderToc(a, c) ==
    LET pandoc_cfg == c["pandoc"]
        pdf == Join(PathOf(a.output), c["output"]["pdf_name"])
    IN  << <<"pandoc">>, a.input,
           <<"-o">>, PathStr(pdf),
           <<"--from">>, <<"markdown+yaml_metadata_block+raw_html">>,
           <<"--template">>, pandoc_cfg["template"],
           <<"--highlight-style">>, pandoc_cfg["highlight_style"],
           <<"--resource-path">>, c["paths"]["resource_path"],
           <<"--top-level-division">>, pandoc_cfg["top_level_division"] >>
        \o (IF Truthy(Get(pandoc_cfg, "toc", "False"))
            THEN << <<"--table-of-contents">>, <<"--toc-depth">>,
                    Str(Get(pandoc_cfg, "toc_depth", DefaultTocDepth)),
                    <<"--number-sections">> >>
            ELSE <<>>)

\* the list of lines 71-87
PandocCmd(a, c) ==
    LET pandoc_cfg == c["pandoc"]
        pdf == Join(PathOf(a.output), c["output"]["pdf_name"])
    IN  << <<"pandoc">>, a.input,
           <<"-o">>, PathStr(pdf),
           <<"--from">>, <<"markdown+yaml_metadata_block+raw_html">>,
           <<"--template">>, pandoc_cfg["template"],
           <<"--highlight-style">>, pandoc_cfg["highlight_style"],
           <<"--resource-path">>, c["paths"]["resource_path"],
           <<"--top-level-division">>, pandoc_cfg["top_level_division"] >>
        \o (IF Truthy(Get(pandoc_cfg, "toc", "False"))
            THEN << <<"--table-of-contents">>, <<"--toc-depth">>,
                    Str(Get(pandoc_cfg, "toc_depth", DefaultTocDepth)) >>
            ELSE <<>>)
        \o (IF Truthy(Get(pandoc_cfg, "number_sections", "False"))
            THEN << <<"--number-sections">> >>
            ELSE <<>>)

\* lines 67-89: the lookups, the cmd list, the first print
GenerateBuild ==
    /\ pc = "generate_build"
    /\ IF FirstMissing(cfg) = 0
       THEN /\ cmd' = PandocCmd(args, cfg)
            /\ log' = Append(log, Printed("[+] Generating PDF...", <<>>))
            /\ pc' = "generate_pandoc"
            /\ UNCHANGED exit
       ELSE /\ Die(Raised("KeyError",
                     <<RequiredLookups[FirstMissing(cfg)][Len(RequiredLookups[FirstMissing(cfg)])]>>))
            /\ UNCHANGED cmd
    /\ UNCHANGED <<args, cfg, dirs, files, fs0, configFile, initResult>>

\* what an external process can come to: exit 0, a non-zero exit
\* (CalledProcessError), no such executable (FileNotFoundError)
ProcessResults == {"ok", "nonzero", "unavailable"}

\* the PDF pandoc writes for an input; a failed run may leave a partial one
PdfOf(input) == <<"%PDF">> \o input
PartialPdf == <<"%PDF-partial">>

\* run(cmd) without check=True: a failure goes unnoticed
RunPandocUnchecked ==
    /\ pc = "generate_pandoc"
    /\ \E result \in ProcessResults :
          /\ log' = Append(log, Ran(cmd, result))
          /\ files' = IF result = "ok" THEN Write(Pdf, PdfOf(args.input)) ELSE files
    /\ pc' = "generate_archive"
    /\ UNCHANGED <<exit, args, cfg, cmd, dirs, fs0, configFile, initResult>>

\* run(cmd), line 90
RunPandoc ==
    /\ pc = "generate_pandoc"
    /\ \E result \in ProcessResults :
          IF result = "ok"
          THEN /\ files' = Write(Pdf, PdfOf(args.input))
               /\ log' = Append(log, Ran(cmd, result))
               /\ pc' = "generate_archive"
               /\ UNCHANGED exit
          ELSE /\ Die(Ran(cmd, result))
               /\ \/ UNCHANGED files
                  \/ result = "nonzero" /\ files' = Write(Pdf, PartialPdf)
    /\ UNCHANGED <<args, cfg, cmd, dirs, fs0, configFile, initResult>>

\* lines 91-95: the print, and whether to archive
GenerateArchive ==
    /\ pc = "generate_archive"
    /\ IF Truthy(Get(cfg["output"], "archive", "False"))
       THEN /\ log' = log \o <<Printed("[+] PDF generated:", PathStr(Pdf)),
                               Printed("[+] Creating archive...", <<>>)>>
            /\ pc' = "generate_7z"
            /\ UNCHANGED exit
       ELSE /\ log' = Append(log, Printed("[+] PDF generated:", PathStr(Pdf)))
            /\ exit' = 0
            /\ pc' = "done"
    /\ UNCHANGED <<args, cfg, cmd, dirs, files, fs0, configFile, initResult>>

SevenZipCmd == << <<"7z">>, <<"a">>, PathStr(Archive), PathStr(Pdf) >>

\* the archive 7z leaves after adding one file to what was there before
SevenZipAdd(old, name, content) == <<"7z[">> \o name \o <<"=">> \o content \o <<"]">>

\* run(["7z", "a", str(archive), str(pdf)]), line 96
RunSevenZip ==
    /\ pc = "generate_7z"
    /\ \E result \in ProcessResults :
          IF result = "ok"
          THEN /\ files' = Write(Archive,
                              SevenZipAdd(Get(files, Archive, <<>>), PathName(Pdf), files[Pdf]))
               /\ log' = Append(log, Ran(SevenZipCmd, result))
               /\ pc' = "generate_md5"
               /\ UNCHANGED exit
          ELSE /\ Die(Ran(SevenZipCmd, result))
               /\ UNCHANGED files
    /\ UNCHANGED <<args, cfg, cmd, dirs, fs0, configFile, initResult>>

\* md5sum of the PDF instead of the file it is given
Md5sumOfPdf(file) == MD5(files[Pdf])

\* md5sum(file)
Md5sum(file) == MD5(files[file])

\* lines 98-100, and main's return
GenerateChecksum ==
    /\ pc = "generate_md5"
    /\ log' = log \o <<Printed("[+] Archive:", PathStr(Archive)),
                       Printed("[+] MD5:", Md5sum(Archive))>>
    /\ exit' = 0
    /\ pc' = "done"
    /\ UNCHANGED <<args, cfg, cmd, dirs, files, fs0, configFile, initResult>>

Next ==
    \/ Start
    \/ LoadConfig
    \/ InitMkdir
    \/ InitCheckTemplate
    \/ InitCopy
    \/ ReplaceMetadata
    \/ InitDone
    \/ UserEdit
    \/ GenerateMkdir
    \/ GenerateBuild
    \/ RunPandoc
    \/ GenerateArchive
    \/ RunSevenZip
    \/ GenerateChecksum

Spec == Init /\ [][Next]_vars

\* ------------------------------------------------------------- claims
IsInit == args.command = "init"
IsGenerate == args.command = "generate"
Ended == pc \in {"done", "exited"}
ConfigLoaded == args.config = ConfigPath
Last(s) == s[Len(s)]
RunsOf(tool) == {i \in 1..Len(log) : log[i].kind = "run" /\ log[i].cmd[1] = <<tool>>}
PrintsOf(msg) == {i \in 1..Len(log) : log[i].kind = "print" /\ log[i].msg = msg}

\* the lines of a text, without their line ends
RECURSIVE LinesFrom(_, _, _)
LinesFrom(text, i, cur) ==
    IF i > Len(text) THEN (IF cur = <<>> THEN <<>> ELSE <<cur>>)
    ELSE IF text[i] = LF THEN <<cur>> \o LinesFrom(text, i + 1, <<>>)
    ELSE LinesFrom(text, i + 1, Append(cur, text[i]))
\* as str.splitlines does: CR LF and CR end a line as LF does
Lines(text) == LinesFrom(ReadText(text), 1, <<>>)

TemplateText == fs0.files[PathOf(TemplatePath)]
\* the file init left in the output directory
Copied == files[PathOf(args.output \o <<"/", "template", ".md">>)]
InitSucceeded == IsInit /\ pc = "done"

\* C1: an invocation (init or generate) whose --config names no file prints
\* the not-found message and exits non-zero before the handler starts: the
\* file system is as it was (no directory made, no file copied or written)
\* and no external process was run.
C1_MissingConfigStopsRun ==
    (~ConfigLoaded /\ pc \notin {"idle", "load_config"}) =>
        /\ pc = "exited"
        /\ exit # 0
        /\ log = <<Printed("[!] Config file not found:", args.config)>>
        /\ dirs = fs0.dirs
        /\ files = fs0.files

C1_Witness ==
    /\ pc = "exited"
    /\ ~ConfigLoaded
    /\ IsGenerate
    /\ PathOf(args.output) \notin dirs

\* C2: for a template that holds the lines title: "", author: "" and
\* date: "", after init with metadata title T and author A the copy holds
\* title: "T", author: "A" and date: "<today>", and every other line of the
\* copy equals the corresponding line of the template.
C2_OnlyPlaceholderLinesChange ==
    LET before == Lines(TemplateText)
        after == Lines(Copied)
        holders == {Placeholder(Keys[k]) : k \in 1..Len(Keys)}
    IN  (/\ InitSucceeded
         /\ cfg["metadata"] = FullMetadata
         /\ holders \subseteq Range(before)) =>
            /\ {Filled("title", <<"T">>), Filled("author", <<"A">>),
                Filled("date", Today)} \subseteq Range(after)
            /\ Len(after) = Len(before)
            /\ \A i \in 1..Len(before) :
                  before[i] \notin holders => after[i] = before[i]

\* C3: for a template that holds none of the literal placeholders, and
\* whatever the config, the file init leaves is identical to the template.
C3_NoPlaceholderCopyIdentical ==
    (/\ IsInit
     /\ pc \in {"init_print", "done"}
     /\ \A k \in 1..Len(Keys) : ~Contains(TemplateText, Placeholder(Keys[k]))) =>
        Copied = TemplateText

\* C7: each placeholder line key: "" becomes key: "<value>" with the
\* configured value verbatim: no inserted value is changed by the
\* substitution of another key.
C7_InsertedValuesVerbatim ==
    LET before == Lines(TemplateText)
        after == Lines(Copied)
        value == [title |-> Get(cfg["metadata"], "title", <<>>),
                  author |-> Get(cfg["metadata"], "author", <<>>)]
    IN  InitSucceeded =>
            \A i \in 1..Len(before) : \A key \in {"title", "author"} :
                before[i] = Placeholder(key) =>
                    /\ i <= Len(after)
                    /\ after[i] = Filled(key, value[key])

\* the value that follows option flag in a command line
OptionValue(c, flag) == c[(CHOOSE i \in 1..Len(c) : c[i] = flag) + 1]
Carries(c, flag) == \E i \in 1..Len(c) : c[i] = flag
\* "<output_dir>/<config.output.pdf_name>"
ExpectedPdf == args.output \o <<"/">> \o configFile["output"]["pdf_name"]

\* C4: generate runs the converter exactly once, with -o
\* <output_dir>/<pdf_name>; if that run fails (no executable, or a non-zero
\* exit) the invocation ends non-zero there: no retry, no "PDF generated"
\* line, no archiver, no digest.
C4_ConverterOnceFailureAborts ==
    /\ Cardinality(RunsOf("pandoc")) <= 1
    /\ (IsGenerate /\ pc = "done") => Cardinality(RunsOf("pandoc")) = 1
    /\ \A i \in RunsOf("pandoc") :
          /\ OptionValue(log[i].cmd, <<"-o">>) = ExpectedPdf
          /\ log[i].msg # "ok" =>
                /\ i = Len(log)
                /\ pc = "exited"
                /\ exit # 0
                /\ PrintsOf("[+] PDF generated:") = {}
                /\ RunsOf("7z") = {}
                /\ PrintsOf("[+] MD5:") = {}

C4_Witness ==
    /\ pc = "exited"
    /\ Len(log) > 0
    /\ Last(log).kind = "run"
    /\ Last(log).cmd[1] = <<"pandoc">>
    /\ Last(log).msg = "nonzero"

\* bool(output.archive), absent meaning false
ArchiveWanted ==
    /\ Has(configFile, "output")
    /\ Has(configFile["output"], "archive")
    /\ configFile["output"]["archive"] \notin {"False", "0", "''", "None"}

\* C5: in generate the archiver runs if and only if output.archive is
\* truthy and the converter has succeeded before it; when the archiver
\* succeeds the invocation then prints the archive path and the MD5 of the
\* archive file's bytes as the archiver left them.  With output.archive
\* false or absent no archiver runs and no digest is printed.
C5_ArchiveAndDigest ==
    /\ \A i \in RunsOf("7z") :
          /\ ArchiveWanted
          /\ \E j \in RunsOf("pandoc") : j < i /\ log[j].msg = "ok"
          /\ \A j \in RunsOf("pandoc") : log[i].cmd[4] = OptionValue(log[j].cmd, <<"-o">>)
    /\ Ended =>
          (RunsOf("7z") # {} <=>
              (ArchiveWanted /\ \E j \in RunsOf("pandoc") : log[j].msg = "ok"))
    /\ \A i \in PrintsOf("[+] MD5:") :
          \E j \in RunsOf("7z") : j < i /\ log[j].msg = "ok"
    /\ \A j \in RunsOf("7z") :
          (log[j].msg = "ok" /\ pc = "done") =>
              /\ Len(log) = j + 2
              /\ log[j + 1] = Printed("[+] Archive:", log[j].cmd[3])
              /\ log[j + 2] = Printed("[+] MD5:", MD5(files[PathOf(log[j].cmd[3])]))

C5_Witness ==
    /\ pc = "done"
    /\ \E j \in RunsOf("7z") : log[j].msg = "ok"
    /\ PrintsOf("[+] MD5:") # {}

\* C6: init run again with the same template, config and output directory
\* succeeds again, and leaves the file a single run leaves, whatever was
\* done to the copy in between.
C6_InitTwiceSameFile ==
    (IsInit /\ Ended /\ args \in DOMAIN initResult) =>
        /\ pc = "done"
        /\ exit = 0
        /\ Copied = initResult[args]

C6_Witness ==
    /\ InitSucceeded
    /\ args \in DOMAIN initResult
    /\ PathOf(args.output \o <<"/", "template", ".md">>) \in DOMAIN fs0.files
    /\ fs0.files[PathOf(args.output \o <<"/", "template", ".md">>)] = EditText
    /\ Copied # EditText

\* the keys each command reads by subscript
SubscriptedKeys(command) ==
    IF command = "init" THEN {<<"metadata">>}
    ELSE {<<"output">>, <<"output", "pdf_name">>, <<"pandoc">>,
          <<"pandoc", "template">>, <<"pandoc", "highlight_style">>,
          <<"pandoc", "top_level_division">>, <<"paths">>,
          <<"paths", "resource_path">>}
\* the keys each command reads with a default
DefaultedKeys(command) ==
    IF command = "init" THEN {<<"metadata", "title">>, <<"metadata", "author">>}
    ELSE {<<"output", "archive">>, <<"pandoc", "toc">>, <<"pandoc", "toc_depth">>,
          <<"pandoc", "number_sections">>}
Present(c, key) ==
    /\ key[1] \in DOMAIN c
    /\ Len(key) = 2 => key[2] \in DOMAIN c[key[1]]
TemplateGiven == PathOf(args.template) \in DOMAIN fs0.files

\* C8 as stated: no invocation completes whose config lacks a key its
\* command consumes, the defaulted keys included.
C8_AnyMissingKeyFails ==
    (pc = "done" /\ ConfigLoaded) =>
        \A key \in SubscriptedKeys(args.command) \cup DefaultedKeys(args.command) :
            Present(configFile, key)

\* C8, amended: an invocation whose config lacks a key its command reads
\* by subscript never completes; it ends non-zero with an uncaught KeyError
\* (or, for init, with the template-not-found exit that comes first).  A
\* config that has every subscripted key raises no KeyError, whichever
\* defaulted keys it lacks.
C8_SubscriptedKeyMissingFails ==
    LET lacking == \E key \in SubscriptedKeys(args.command) : ~Present(configFile, key)
        raised == {i \in 1..Len(log) : log[i].kind = "raise"}
    IN  (ConfigLoaded /\ pc # "idle") =>
            /\ lacking => pc # "done"
            /\ (lacking /\ pc = "exited") =>
                  /\ exit # 0
                  /\ \/ /\ Last(log).kind = "raise"
                        /\ Last(log).msg = "KeyError"
                        /\ \E key \in SubscriptedKeys(args.command) :
                              /\ ~Present(configFile, key)
                              /\ Last(log).arg = <<Last(key)>>
                     \/ /\ IsInit
                        /\ ~TemplateGiven
                        /\ Last(log).msg = "[!] Template not found:"
            /\ ~lacking => raised = {}

C8_Witness ==
    /\ pc = "exited"
    /\ IsGenerate
    /\ Last(log) = Raised("KeyError", <<"resource_path">>)

\* C9: init given a template path that does not exist prints a not-found
\* message and exits non-zero without copying or changing any file; the
\* check comes after the directory creation, so the output directory and
\* its parents exist afterwards.
C9_MissingTemplate ==
    (IsInit /\ ConfigLoaded /\ ~TemplateGiven /\ pc \notin {"load_config", "init_mkdir"}) =>
        /\ files = fs0.files
        /\ Ancestors(PathOf(args.output)) \subseteq dirs
        /\ pc # "init_check" =>
              /\ pc = "exited"
              /\ exit # 0
              /\ log = <<Printed("[!] Template not found:", args.template)>>

C9_Witness ==
    /\ IsInit
    /\ pc = "exited"
    /\ ConfigLoaded
    /\ ~TemplateGiven
    /\ PathOf(args.output) \notin fs0.dirs
    /\ PathOf(args.output) \in dirs

\* C10: the converter command line always carries the input file, -o <pdf>,
\* the fixed --from format and --template, --highlight-style,
\* --resource-path and --top-level-division with the configured values; it
\* carries --table-of-contents and --toc-depth <toc_depth, default 6> if and
\* only if pandoc.toc is truthy, and --number-sections if and only if
\* pandoc.number_sections is truthy.
C10_CommandLine ==
    LET p == configFile["pandoc"]
        on(flag) == flag \in DOMAIN p /\ p[flag] \notin {"False", "0", "''", "None"}
        depth == IF "toc_depth" \in DOMAIN p
                 THEN (IF p["toc_depth"] = 2 THEN <<"2">> ELSE <<"?">>)
                 ELSE <<"6">>
    IN  (pc = "generate_pandoc" \/ RunsOf("pandoc") # {}) =>
            /\ \A i \in RunsOf("pandoc") : log[i].cmd = cmd
            /\ cmd[1] = <<"pandoc">>
            /\ cmd[2] = args.input
            /\ OptionValue(cmd, <<"-o">>) = ExpectedPdf
            /\ OptionValue(cmd, <<"--from">>) = <<"markdown+yaml_metadata_block+raw_html">>
            /\ OptionValue(cmd, <<"--template">>) = p["template"]
            /\ OptionValue(cmd, <<"--highlight-style">>) = p["highlight_style"]
            /\ OptionValue(cmd, <<"--resource-path">>) = configFile["paths"]["resource_path"]
            /\ OptionValue(cmd, <<"--top-level-division">>) = p["top_level_division"]
            /\ Carries(cmd, <<"--table-of-contents">>) <=> on("toc")
            /\ Carries(cmd, <<"--toc-depth">>) <=> on("toc")
            /\ on("toc") => OptionValue(cmd, <<"--toc-depth">>) = depth
            /\ Carries(cmd, <<"--number-sections">>) <=> on("number_sections")

C10_Witness ==
    /\ RunsOf("pandoc") # {}
    /\ Carries(cmd, <<"--table-of-contents">>)
    /\ OptionValue(cmd, <<"--toc-depth">>) = <<"6">>
    /\ ~Carries(cmd, <<"--number-sections">>)

====
